---- MODULE Spec2Model ----
(***************************************************************************)
(* Model of dragon_curve.py: the combinatorics helpers (nb_corners,        *)
(* nb_folds, is_even), rotation_matrix, the fold loop of curve and the      *)
(* plotting loop of draw_curve.                                             *)
(*                                                                         *)
(* A 2 x n numpy array is a pair <<row0, row1>> of sequences; numpy's      *)
(* 0-based index i is the 1-based index i + 1 here.  An angle is a number  *)
(* of quarter turns (angle = q * pi/2), for which cos and sin are exactly  *)
(* -1, 0 or 1, so every coordinate is an integer.                          *)
(***************************************************************************)
EXTENDS Integers, Sequences, FiniteSets, TLC

\* Largest fold count passed to the functions.
MaxFolds == 7
\* Number of negative fold counts passed to the functions (-NegFolds .. -1).
NegFolds == 2
\* Angles are 0 .. MaxQuarterTurns quarter turns.
MaxQuarterTurns == 3

Angles == 0 .. MaxQuarterTurns
RightAngle == 1
FoldCounts == (0 - NegFolds) .. MaxFolds
Gradients == {"None", "viridis", "inferno", "cool", "tab", "other"}

VARIABLES
    folds,          \* argument folds
    angle,          \* argument angle, in quarter turns
    alternate,      \* argument alternate
    color_gradient, \* argument color_gradient of draw_curve
    pc,             \* position in the program
    direction,      \* curve: the direction sequence
    f,              \* curve: next value of the loop over range(folds)
    k,              \* curve: number of entries of direction consumed by the fold loop
    d,              \* curve: the entry of direction used by the last fold step
    coord,          \* curve: the polyline, <<row 0, row 1>>
    rot_coord,      \* curve: the rotated copy of the last fold step
    translation,    \* curve: the translation of the last fold step
    trans_x,        \* curve: row 0 of the translated unrotated polyline
    trans_y,        \* curve: row 1 of the translated unrotated polyline
    colors,         \* draw_curve: the sampled colours (sample positions)
    fold,           \* draw_curve: number of iterations of the plotting loop done
    prev,           \* draw_curve: start of the next slice
    plotted,        \* draw_curve: the slices handed to plt.plot, in order
    corners,        \* draw_curve: end of the current slice; argument of a direct nb_folds call
    ret             \* value returned by the last call of nb_corners or nb_folds

vars == <<folds, angle, alternate, color_gradient, pc, direction, f, k, d, coord,
          rot_coord, translation, trans_x, trans_y, colors, fold, prev, plotted,
          corners, ret>>

curveVars == <<direction, f, k, d, coord, rot_coord, translation, trans_x, trans_y>>
drawVars == <<colors, fold, prev, plotted, corners>>
combVars == <<ret>>
args == <<folds, angle, alternate, color_gradient>>

(***************************************************************************)
(* Combinatorics                                                           *)
(***************************************************************************)

\* 2**folds - 1, for folds >= 0.
nb_corners(n) == 2 ^ n - 1

\* floor(log2(n)) for n >= 1, by repeated halving.
RECURSIVE FloorLog2(_)
FloorLog2(n) == IF n <= 1 THEN 0 ELSE 1 + FloorLog2(n \div 2)

\* np.log2(x) of an integer x: the real number is kept as its integer part
\* and whether it is exactly that integer; log2(0) is -inf, log2(x < 0) is nan.
log2(x) ==
    IF x < 0 THEN [kind |-> "nan"]
    ELSE IF x = 0 THEN [kind |-> "-inf"]
    ELSE [kind |-> "real", whole |-> FloorLog2(x), exact |-> 2 ^ FloorLog2(x) = x]

nb_folds_no_plus(c) == log2(c)

\* np.log2(corners + 1)
nb_folds(c) == log2(c + 1)

is_even_odd(num) == num % 2 = 1

\* num % 2 == 0 (Python's % with a positive modulus is non-negative, as here)
is_even(num) == num % 2 = 0

(***************************************************************************)
(* Rotation                                                                *)
(***************************************************************************)

\* np.cos and np.sin of a whole number of quarter turns (exact values).
Cos(a) == CASE a % 4 = 0 -> 1 [] a % 4 = 1 -> 0 [] a % 4 = 2 -> -1 [] a % 4 = 3 -> 0
Sin(a) == CASE a % 4 = 0 -> 0 [] a % 4 = 1 -> 1 [] a % 4 = 2 -> 0 [] a % 4 = 3 -> -1

rotation_matrix_swapped(a) == << <<Sin(a), 0 - Cos(a)>>, <<Cos(a), Sin(a)>> >>

\* [[cos, -sin], [sin, cos]]
rotation_matrix(a) == << <<Cos(a), 0 - Sin(a)>>, <<Sin(a), Cos(a)>> >>

(***************************************************************************)
(* Array helpers                                                           *)
(***************************************************************************)

\* s[::-1]
Reverse(s) == [i \in 1 .. Len(s) |-> s[Len(s) + 1 - i]]

\* np.repeat(v, n)
Repeat(v, n) == [i \in 1 .. n |-> v]

\* elementwise a + b of two arrays of the same shape
Add(a, b) == [i \in 1 .. Len(a) |-> a[i] + b[i]]

\* mat.dot(c) for a 2 x 2 matrix and a 2 x n array
Dot(mat, c) ==
    << [i \in 1 .. Len(c[1]) |-> mat[1][1] * c[1][i] + mat[1][2] * c[2][i]],
       [i \in 1 .. Len(c[1]) |-> mat[2][1] * c[1][i] + mat[2][2] * c[2][i]] >>

\* c[:, i] with i 0-based: column i of a 2 x n array
Column(c, i) == <<c[1][i + 1], c[2][i + 1]>>

\* s[a:b] of a sequence of length n, Python slice semantics: the 0-based
\* bounds after the negative-index adjustment and clamping.
SliceStart(a, n) == IF a < 0 THEN (IF a + n < 0 THEN 0 ELSE a + n)
                    ELSE (IF a > n THEN n ELSE a)
SliceIndices(a, b, n) == {i \in 0 .. n - 1 : SliceStart(a, n) <= i /\ i < SliceStart(b, n)}

(***************************************************************************)
(* curve: the locals of one fold step, as functions of coord, d and angle  *)
(***************************************************************************)

InitialSegmentRows == << <<0, 1>>, <<0, 0>> >>

\* np.array([[0, 0], [1, 0]]): row 0 is [0, 0], row 1 is [1, 0]
InitialSegment == << <<0, 0>>, <<1, 0>> >>

rot_mat_unsigned(dd, a) == rotation_matrix(a)

\* rotation_matrix(angle = d*angle)
rot_mat(dd, a) == rotation_matrix(dd * a)

\* rot_mat.dot(coord)
Rotated(c, dd, a) == Dot(rot_mat(dd, a), c)

\* rot_coord[:, 0]
new_orig(rc) == Column(rc, 0)

translation_not_negated(rc) == new_orig(rc)

\* new_orig*np.array([-1, -1])
Translation(rc) == <<new_orig(rc)[1] * (-1), new_orig(rc)[2] * (-1)>>

\* coord[r] + np.repeat(translation[r], coord[r].shape[0])
Trans(row, t) == Add(row, Repeat(t, Len(row)))

new_row_keep_first(head, rrow, t) ==
    head \o Add(Reverse(rrow), Repeat(t, Len(rrow)))

new_row_not_reversed(head, rrow, t) ==
    head \o Add(Tail(rrow), Repeat(t, Len(Tail(rrow))))

\* np.append(trans, rot_coord[r][::-1][1:] + np.repeat(translation[r], rot_coord[r][1:].shape[0]))
new_row(head, rrow, t) ==
    head \o Add(Tail(Reverse(rrow)), Repeat(t, Len(Tail(rrow))))

\* new_coord of one iteration of the loop body
FoldStep(c, dd, a) ==
    LET rc == Rotated(c, dd, a)
        t == Translation(rc)
    IN << new_row(Trans(c[1], t[1]), rc[1], t[1]),
          new_row(Trans(c[2], t[2]), rc[2], t[2]) >>

\* the direction list of curve for folds >= 0
Directions(n, alt) ==
    IF alt THEN [i \in 1 .. n |-> IF is_even(i - 1) THEN 1 ELSE -1]
    ELSE [i \in 1 .. n |-> 1]

\* the fold loop over a direction sequence
RECURSIVE Folded(_, _, _)
Folded(c, dirs, a) ==
    IF dirs = <<>> THEN c ELSE Folded(FoldStep(c, Head(dirs), a), Tail(dirs), a)

\* the value curve(n, a, alt) returns, for n >= 0
CurveResult(n, a, alt) == Folded(InitialSegment, Directions(n, alt), a)

(***************************************************************************)
(* Initial state: a call with its arguments                                *)
(***************************************************************************)

None == <<>>

Init ==
    /\ folds \in FoldCounts
    /\ angle \in Angles
    /\ alternate \in BOOLEAN
    /\ color_gradient \in Gradients
    /\ pc = "call"
    /\ direction = None
    /\ f = 0
    /\ k = 0
    /\ d = 0
    /\ coord = None
    /\ rot_coord = None
    /\ translation = None
    /\ trans_x = None
    /\ trans_y = None
    /\ colors = None
    /\ fold = 0
    /\ prev = 0
    /\ plotted = <<>>
    /\ corners = 0
    /\ ret = None

(***************************************************************************)
(* curve                                                                   *)
(***************************************************************************)

\* draw_curve line 155 calls curve; curve line 100 builds the first segment.
CurveBegin ==
    /\ pc = "call"
    /\ coord' = InitialSegment
    /\ pc' = "direction"
    /\ UNCHANGED <<args, direction, f, k, d, rot_coord, translation, trans_x, trans_y,
                   drawVars, combVars>>

\* lines 101-102: alternate, direction = []
AlternateBegin ==
    /\ pc = "direction"
    /\ alternate
    /\ direction' = <<>>
    /\ f' = 0
    /\ pc' = "range"
    /\ UNCHANGED <<args, k, d, coord, rot_coord, translation, trans_x, trans_y,
                   drawVars, combVars>>

\* lines 103-107: one iteration of for f in range(folds)
AlternateStep ==
    /\ pc = "range"
    /\ f < folds
    /\ direction' = Append(direction, IF is_even(f) THEN 1 ELSE -1)
    /\ f' = f + 1
    /\ UNCHANGED <<args, pc, k, d, coord, rot_coord, translation, trans_x, trans_y,
                   drawVars, combVars>>

\* range(folds) is exhausted (at once when folds <= 0)
AlternateEnd ==
    /\ pc = "range"
    /\ f >= folds
    /\ pc' = "fold"
    /\ UNCHANGED <<args, curveVars, drawVars, combVars>>

\* line 109: np.ones(folds)
Ones ==
    /\ pc = "direction"
    /\ ~alternate
    /\ folds >= 0
    /\ direction' = [i \in 1 .. folds |-> 1]
    /\ pc' = "fold"
    /\ UNCHANGED <<args, f, k, d, coord, rot_coord, translation, trans_x, trans_y,
                   drawVars, combVars>>

\* line 109: np.ones of a negative shape raises ValueError
OnesError ==
    /\ pc = "direction"
    /\ ~alternate
    /\ folds < 0
    /\ pc' = "curve_error"
    /\ UNCHANGED <<args, curveVars, drawVars, combVars>>

\* lines 111-121: one iteration of for d in direction
Fold ==
    /\ pc = "fold"
    /\ k < Len(direction)
    /\ LET dd == direction[k + 1]
           rc == Rotated(coord, dd, angle)
           t == Translation(rc)
           tx == Trans(coord[1], t[1])
           ty == Trans(coord[2], t[2])
       IN /\ d' = dd
          /\ rot_coord' = rc
          /\ translation' = t
          /\ trans_x' = tx
          /\ trans_y' = ty
          /\ coord' = << new_row(tx, rc[1], t[1]), new_row(ty, rc[2], t[2]) >>
    /\ k' = k + 1
    /\ UNCHANGED <<args, pc, direction, f, drawVars, combVars>>

\* line 122: return coord (into coords of draw_curve, line 155)
Return ==
    /\ pc = "fold"
    /\ k >= Len(direction)
    /\ pc' = "returned"
    /\ UNCHANGED <<args, curveVars, drawVars, combVars>>

(***************************************************************************)
(* draw_curve, after curve has returned into coords                        *)
(***************************************************************************)

KnownGradients == {"viridis", "inferno", "cool", "tab"}

\* the slice coords[r][a:b] handed to plt.plot with colour col
Slice(a, b, col) ==
    [start |-> a, stop |-> b, indices |-> SliceIndices(a, b, Len(coord[1])), color |-> col]

\* lines 156-158 and 175-184: one plot of the whole polyline
PlotPlain ==
    /\ pc = "returned"
    /\ color_gradient = "None"
    /\ plotted' = <<[start |-> 0, stop |-> Len(coord[1]),
                     indices |-> 0 .. Len(coord[1]) - 1, color |-> "tab:orange"]>>
    /\ pc' = "drawn"
    /\ UNCHANGED <<args, curveVars, colors, fold, prev, corners, combVars>>

\* lines 160-170: prev = 0 and colors = cmap(np.linspace(0, 1, folds + 1))
GradientBegin ==
    /\ pc = "returned"
    /\ color_gradient \in KnownGradients
    /\ folds + 1 >= 0
    /\ prev' = 0
    /\ colors' = [i \in 1 .. folds + 1 |-> i - 1]
    /\ fold' = 0
    /\ pc' = "plot"
    /\ UNCHANGED <<args, curveVars, plotted, corners, combVars>>

\* lines 161-168: np.linspace with a negative number of samples raises ValueError
LinspaceError ==
    /\ pc = "returned"
    /\ color_gradient \in KnownGradients
    /\ folds + 1 < 0
    /\ prev' = 0
    /\ pc' = "draw_error"
    /\ UNCHANGED <<args, curveVars, colors, fold, plotted, corners, combVars>>

\* line 171: no branch of lines 161-168 bound colors, UnboundLocalError
ColorsUnbound ==
    /\ pc = "returned"
    /\ color_gradient \notin KnownGradients \cup {"None"}
    /\ prev' = 0
    /\ pc' = "draw_error"
    /\ UNCHANGED <<args, curveVars, colors, fold, plotted, corners, combVars>>

\* lines 171-174: one iteration of for fold, col in enumerate(colors)
PlotSegment ==
    /\ pc = "plot"
    /\ fold < Len(colors)
    /\ corners' = nb_corners(fold)
    /\ plotted' = Append(plotted, Slice(prev, nb_corners(fold), colors[fold + 1]))
    /\ prev' = nb_corners(fold) - 1
    /\ fold' = fold + 1
    /\ UNCHANGED <<args, pc, curveVars, colors, combVars>>

\* lines 175-184: the loop is over, the figure is finished
PlotEnd ==
    /\ pc = "plot"
    /\ fold >= Len(colors)
    /\ pc' = "drawn"
    /\ UNCHANGED <<args, curveVars, drawVars, combVars>>

(***************************************************************************)
(* Calls of the combinatorics helpers                                      *)
(***************************************************************************)

\* nb_corners(folds), for the fold counts on which 2**folds is an integer
NbCornersCall ==
    /\ pc = "call"
    /\ folds >= 0
    /\ ret' = nb_corners(folds)
    /\ pc' = "nb_corners"
    /\ UNCHANGED <<args, curveVars, drawVars>>

\* nb_folds applied to the value nb_corners returned
NbFoldsCall ==
    /\ pc = "nb_corners"
    /\ ret' = nb_folds(ret)
    /\ pc' = "nb_folds"
    /\ UNCHANGED <<args, curveVars, drawVars>>

\* nb_folds applied to any corner count
NbFoldsOf ==
    /\ pc = "call"
    /\ \E c \in -2 .. nb_corners(MaxFolds) + 1 :
          /\ corners' = c
          /\ ret' = nb_folds(c)
    /\ pc' = "nb_folds_of"
    /\ UNCHANGED <<args, curveVars, colors, fold, prev, plotted>>

Next ==
    \/ CurveBegin
    \/ AlternateBegin
    \/ AlternateStep
    \/ AlternateEnd
    \/ Ones
    \/ OnesError
    \/ Fold
    \/ Return
    \/ PlotPlain
    \/ GradientBegin
    \/ LinspaceError
    \/ ColorsUnbound
    \/ PlotSegment
    \/ PlotEnd
    \/ NbCornersCall
    \/ NbFoldsCall
    \/ NbFoldsOf

Spec == Init /\ [][Next]_vars

(***************************************************************************)
(* Reading a polyline                                                      *)
(***************************************************************************)

\* number of points of a 2 x n array
NPoints(c) == Len(c[1])

\* point i (1-based): x from row 0, y from row 1, as lines 116-119 and 158 read it
Point(c, i) == <<c[1][i], c[2][i]>>

\* the edge from point i to point i + 1
Edge(c, i) == <<c[1][i + 1] - c[1][i], c[2][i + 1] - c[2][i]>>

\* positions at which curve holds a polyline in coord
HasPolyline == pc \in {"direction", "range", "fold", "returned", "plot", "drawn", "draw_error"}

\* positions at or after the return of curve
Returned == pc \in {"returned", "plot", "drawn", "draw_error"}

(***************************************************************************)
(* Claims                                                                  *)
(***************************************************************************)

\* C1: after k fold steps the polyline has 2^k + 1 points in both rows, and
\* curve(folds) returns 2^folds + 1 = nb_corners(folds) + 2 points, for every
\* angle and both values of alternate.
C1_PointCount ==
    /\ HasPolyline =>
          /\ NPoints(coord) = 2 ^ k + 1
          /\ Len(coord[2]) = NPoints(coord)
    /\ (Returned /\ folds >= 0) =>
          /\ k = folds
          /\ NPoints(coord) = 2 ^ folds + 1
          /\ NPoints(coord) = nb_corners(folds) + 2

C1_Witness ==
    /\ pc = "returned"
    /\ folds = MaxFolds
    /\ k = MaxFolds
    /\ NPoints(coord) = 2 ^ MaxFolds + 1

\* C2 as stated: curve(0) returns the initial segment unchanged and its first
\* point is (0,0), its second (1,0), x read from row 0 and y from row 1.
C2_Original ==
    (pc = "returned" /\ folds = 0) =>
        /\ coord = InitialSegment
        /\ Point(coord, 1) = <<0, 0>>
        /\ Point(coord, 2) = <<1, 0>>

\* C2 amended: curve(0) returns the initial segment unchanged (no fold step
\* has run); read with x from row 0 and y from row 1 its first point is (0,1)
\* and its second point is (0,0).
C2_InitialSegment ==
    (pc = "returned" /\ folds = 0) =>
        /\ k = 0
        /\ NPoints(coord) = 2
        /\ Point(coord, 1) = <<0, 1>>
        /\ Point(coord, 2) = <<0, 0>>

C2_Witness == pc = "returned" /\ folds = 0 /\ coord = << <<0, 0>>, <<1, 0>> >>

\* the sign the direction policy prescribes at 0-indexed step i
ExpectedSign(i) == IF alternate /\ i % 2 = 1 THEN -1 ELSE 1

\* the polyline the last fold step started from: its head, translated back
BeforeStep == << Trans(trans_x, 0 - translation[1]), Trans(trans_y, 0 - translation[2]) >>

\* C3: for folds >= 0 the direction sequence has folds entries, entry i
\* (0-indexed) is +1 when alternate is false or i is even and -1 otherwise,
\* and fold step i rotates the polyline by the sign of entry i.
C3_Directions ==
    /\ (pc \in {"fold", "returned"} /\ folds >= 0) =>
          /\ Len(direction) = folds
          /\ \A i \in 1 .. folds : direction[i] = ExpectedSign(i - 1)
    /\ (pc \in {"fold", "returned"} /\ k >= 1) =>
          /\ d = direction[k]
          /\ d = ExpectedSign(k - 1)
          /\ rot_coord = Dot(rotation_matrix(ExpectedSign(k - 1) * angle), BeforeStep)

C3_Witness ==
    /\ pc = "returned"
    /\ alternate
    /\ folds >= 3
    /\ direction[1] = 1 /\ direction[2] = -1 /\ direction[3] = 1

\* C4 as stated: a negative fold count is rejected, no polyline is returned.
C4_NegativeRejected == folds < 0 => ~Returned

C6_AlternationChangesGeometry ==
    (pc = "returned" /\ angle = RightAngle /\ folds >= 0) =>
        LET other == CurveResult(folds, angle, ~alternate)
        IN /\ NPoints(other) = NPoints(coord)
           /\ folds <= 1 => coord = other
           /\ folds >= 2 => \E i \in 1 .. NPoints(coord) : Point(coord, i) # Point(other, i)

C6_Witness ==
    /\ pc = "returned" /\ angle = RightAngle /\ folds = MaxFolds /\ alternate
    /\ coord # CurveResult(folds, angle, FALSE)

\* C7 as stated: in gradient mode the folds + 1 slices drawn are non-empty,
\* each starts at a valid non-negative index where the previous one ended,
\* and together they cover every point index 0 .. 2^folds.
C7_GradientPartition ==
    (pc = "drawn" /\ color_gradient \in KnownGradients /\ folds >= 0) =>
        /\ Len(plotted) = folds + 1
        /\ \A i \in 1 .. Len(plotted) :
              /\ plotted[i].indices # {}
              /\ plotted[i].start >= 0
              /\ plotted[i].start < NPoints(coord)
              /\ i > 1 => plotted[i].start = plotted[i - 1].stop - 1
        /\ UNION {plotted[i].indices : i \in 1 .. Len(plotted)} = 0 .. 2 ^ folds

\* the rotated copy of the last fold step, translated and reversed, row r
ReversedTranslated(r) ==
    Add(Reverse(rot_coord[r]), Repeat(translation[r], Len(rot_coord[r])))

\* C8: after every fold step the point dropped from the reversed, translated
\* rotated copy equals the last point of the head, the new polyline is the
\* head followed by the rest (the shared corner once), and the rotated
\* copy's first point, the new last point, is at the origin.
C8_SharedCorner ==
    (pc \in {"fold", "returned"} /\ k >= 1) =>
        LET n == Len(trans_x)
        IN /\ Len(trans_y) = n
           /\ ReversedTranslated(1)[1] = trans_x[n]
           /\ ReversedTranslated(2)[1] = trans_y[n]
           /\ coord[1] = trans_x \o Tail(ReversedTranslated(1))
           /\ coord[2] = trans_y \o Tail(ReversedTranslated(2))
           /\ NPoints(coord) = 2 * n - 1
           /\ Column(rot_coord, 0)[1] + translation[1] = 0
           /\ Column(rot_coord, 0)[2] + translation[2] = 0
           /\ Point(coord, NPoints(coord)) = <<0, 0>>

C8_Witness ==
    /\ pc = "fold" /\ k >= 2 /\ d = -1 /\ angle = RightAngle
    /\ ReversedTranslated(1)[1] = trans_x[Len(trans_x)]
    /\ ReversedTranslated(2)[1] = trans_y[Len(trans_y)]

\* all points of c lie on one straight line through its first point
Collinear(c) ==
    \A i, j \in 2 .. NPoints(c) :
        (c[1][i] - c[1][1]) * (c[2][j] - c[2][1])
            = (c[1][j] - c[1][1]) * (c[2][i] - c[2][1])

\* C9: with angle 0 a non-negative fold count is not rejected, the result
\* has 2^folds + 1 points and after every fold step all points are collinear.
C9_ZeroAngle ==
    (angle = 0 /\ folds >= 0) =>
        /\ pc # "curve_error"
        /\ HasPolyline => Collinear(coord)
        /\ Returned => NPoints(coord) = 2 ^ folds + 1

C9_Witness ==
    /\ angle = 0 /\ pc = "returned" /\ folds = MaxFolds
    /\ NPoints(coord) = 2 ^ MaxFolds + 1
    /\ Collinear(coord)

UnitSteps == {<<1, 0>>, <<-1, 0>>, <<0, 1>>, <<0, -1>>}

\* interior vertices of c (1-based point indices) where the direction changes
Corners(c) == {i \in 2 .. NPoints(c) - 1 : Edge(c, i - 1) # Edge(c, i)}

\* C10: at the right angle, after every fold step every edge is an
\* axis-aligned unit step, the two edges at every interior vertex are
\* perpendicular, and the polyline after k folds has nb_corners(k) corners.
C10_RightAngleTurns ==
    (angle = RightAngle /\ HasPolyline) =>
        /\ \A i \in 1 .. NPoints(coord) - 1 : Edge(coord, i) \in UnitSteps
        /\ \A i \in 2 .. NPoints(coord) - 1 :
              Edge(coord, i - 1)[1] * Edge(coord, i)[1]
                  + Edge(coord, i - 1)[2] * Edge(coord, i)[2] = 0
        /\ Cardinality(Corners(coord)) = nb_corners(k)
        /\ (Returned /\ folds >= 0) => Cardinality(Corners(coord)) = nb_corners(folds)

C10_Witness ==
    /\ angle = RightAngle /\ pc = "returned" /\ folds = MaxFolds /\ alternate
    /\ Cardinality(Corners(coord)) = 2 ^ MaxFolds - 1

====
